---- MODULE Spec2Model ----
(***************************************************************************)
(* Knockout-tournament Monte Carlo simulation (services/simulation.py).    *)
(*                                                                         *)
(* One request simulate_tournament(teams, n_runs) is modelled step by      *)
(* step: validation, de-duplication, model load, the n_runs loop of        *)
(* _simulate_single_tournament (shuffle, rounds, matches), conversion of   *)
(* counts to probabilities and persistence of the SimulationRun.           *)
(*                                                                         *)
(* The seeded generator np.random.default_rng(seed=42) is a fixed stream   *)
(* of draws determined by the seed.  The stream is revealed lazily: the    *)
(* first time a position of the stream of a seed is drawn its value is     *)
(* chosen and recorded in `stream`; drawing the same position of the same  *)
(* seed again (a later request) returns the recorded value.                *)
(***************************************************************************)
EXTENDS Integers, Sequences, FiniteSets, TLC

\* ---------------------------------------------------------------- bounds
MaxLen == 6      \* longest input team list
MaxRuns == 2     \* largest n_runs
MaxReplayRuns == 1  \* largest n_runs of a request that is issued twice
MaxAdmin == 2       \* run_training / set_active_model calls in one process
MaxAdminLen == 2    \* longest team list of a request between these calls
MaxThreads == 3     \* threads that enter the model registry

\* ------------------------------------------------------- program constant
Seed == 42

\* ------------------------------------------------------------ input sets
\* Team names in Python string order.
Names == <<"A", "B", "C", "D">>

NameSet == {Names[k] : k \in 1..Len(Names)}

Rank(t) == CHOOSE k \in 1..Len(Names) : Names[k] = t

\* Python str "<" on the team names.
Less(a, b) == Rank(a) < Rank(b)

MaxRank(S) == IF S = {} THEN 0 ELSE CHOOSE m \in S : \A x \in S : x <= m

\* Team names are opaque, so every list is a renaming of one whose first
\* occurrences come in name order; the shuffle of each run makes every
\* bracket order reachable from it.
FirstOccurrencesInOrder(s) ==
    \A k \in 1..Len(s) :
        Rank(s[k]) <= 1 + MaxRank({Rank(s[j]) : j \in 1..(k - 1)})

TeamLists ==
    {s \in UNION {[1..n -> NameSet] : n \in 0..MaxLen} : FirstOccurrencesInOrder(s)}

\* n_runs as the function receives it (the gt=0 schema check sits in the API
\* layer only).
RunCounts == (0 - 1)..MaxRuns

\* Stub predictive models: fixed probabilities per fixture.
Stubs == {"home", "zero", "alpha", "mixed"}

\* -------------------------------------------------------- pure functions
RECURSIVE BitAnd(_, _)
BitAnd(a, b) ==
    IF a = 0 \/ b = 0 THEN 0
    ELSE (a % 2) * (b % 2) + 2 * BitAnd(a \div 2, b \div 2)

_is_power_of_two_even(n) == n > 0 /\ n % 2 = 0

_is_power_of_two(n) == n > 0 /\ BitAnd(n, n - 1) = 0

RECURSIVE DedupFrom(_, _, _, _)
DedupFrom(ts, k, seen, acc) ==
    IF k > Len(ts) THEN acc
    ELSE IF ts[k] \in seen THEN DedupFrom(ts, k + 1, seen, acc)
    ELSE DedupFrom(ts, k + 1, seen \cup {ts[k]}, Append(acc, ts[k]))

\* unique_teams: duplicates removed, first-occurrence order kept.
Dedup(ts) == DedupFrom(ts, 1, {}, <<>>)

Range(s) == {s[k] : k \in 1..Len(s)}

RECURSIVE Gcd(_, _)
Gcd(a, b) == IF b = 0 THEN a ELSE Gcd(b, a % b)

Abs(x) == IF x < 0 THEN 0 - x ELSE x

Frac_undivided(c, n) == <<c, 1>>

\* count / n_runs as an exact fraction in lowest terms (n # 0).
Frac(c, n) ==
    LET g == Gcd(Abs(c), Abs(n))
        sgn == IF n < 0 THEN 0 - 1 ELSE 1
    IN  <<(sgn * c) \div g, Abs(n) \div g>>

ZeroTally == [wins |-> 0, finals |-> 0, semis |-> 0]

\* simulate_match with a stub model: weights of home_win, draw, away_win.
Model(m, home, away) ==
    CASE m = "home"  -> <<1, 0, 0>>
      [] m = "zero"  -> <<0, 0, 0>>
      [] m = "alpha" -> IF Less(home, away) THEN <<1, 0, 0>> ELSE <<0, 0, 1>>
      [] m = "mixed" -> IF home = "A" /\ away = "B" THEN <<1, 1, 2>>
                        ELSE <<1, 0, 0>>

Labels == <<"home_win", "draw", "away_win">>

Normalize_away_fallback(p) ==
    LET total == p[1] + p[2] + p[3]
    IN  IF total <= 0 THEN <<Frac(0, 1), Frac(0, 1), Frac(1, 1)>>
        ELSE <<Frac(p[1], total), Frac(p[2], total), Frac(p[3], total)>>

\* probs_arr after the total <= 0 fallback or the division by the total;
\* each entry is the fraction <<numerator, denominator>>.
Normalize(p) ==
    LET total == p[1] + p[2] + p[3]
    IN  IF total <= 0 THEN <<Frac(1, 1), Frac(0, 1), Frac(0, 1)>>
        ELSE <<Frac(p[1], total), Frac(p[2], total), Frac(p[3], total)>>

\* Outcomes rng.choice(labels, p=probs_arr) can return.
Support(pa) == {k \in 1..3 : pa[k][1] > 0}

\* ------------------------------------------------- the seeded generator
\* A request to the generator: a bounded integer in 0..(k-1), or a
\* categorical draw with probabilities p.
IntReq(k) == [kind |-> "int", k |-> k, p |-> <<>>]

CatReq(pa) == [kind |-> "cat", k |-> 3, p |-> pa]

\* The stream logs with the log of a seed opened on first use.
Open(logs, seed) ==
    IF seed \in DOMAIN logs THEN logs ELSE logs @@ (seed :> <<>>)

NoRng == [seed |-> 0, pos |-> 0]

NewGenerator_entropy(call) == [seed |-> 0 - call, pos |-> 0]

\* rng = np.random.default_rng(seed=42) of the call-th request.
NewGenerator(call) == [seed |-> Seed, pos |-> 0]

\* The draws `entries` made from position pos agree with what the stream
\* log of the seed already holds at these positions.
Replays(log, pos, entries) ==
    \A d \in 1..Len(entries) :
        (pos + d <= Len(log) /\ log[pos + d].req = entries[d].req)
            => log[pos + d].val = entries[d].val

\* The stream log after the draws: positions not seen before are recorded.
Reveal(log, pos, entries) ==
    LET known == IF Len(log) > pos THEN Len(log) - pos ELSE 0
    IN  log \o SubSeq(entries, known + 1, Len(entries))

Swap(x, a, b) == [x EXCEPT ![a] = x[b], ![b] = x[a]]

\* Generator.shuffle on a list: for i = n-1 down to 1, j drawn in 0..i,
\* x[i], x[j] swapped (0-based i, j); js[d] is the d-th draw.
RECURSIVE FisherYates(_, _, _)
FisherYates(x, i, js) ==
    IF i < 1 THEN x
    ELSE FisherYates(Swap(x, i + 1, js[Len(x) - i] + 1), i - 1, js)

ShuffleDraws(n) ==
    {js \in [1..(n - 1) -> 0..(n - 1)] : \A d \in 1..(n - 1) : js[d] <= n - d}

ShuffleEntries(n, js) ==
    [d \in 1..(n - 1) |-> [req |-> IntReq(n - d + 1), val |-> js[d]]]

\* ------------------------------------------------------------------ state
VARIABLES
    teams,          \* argument: the team list
    n_runs,         \* argument: number of runs
    stub,           \* the predictive model behind simulate_match
    modelAvailable, \* an ACTIVE model run exists
    pc,             \* position of the request in simulate_tournament
    error,          \* exception raised by the request, "" if none
    unique_teams,   \* de-duplicated team list
    aggregate,      \* team -> tally over the runs so far
    rng,            \* the generator of the request: seed and position
    stream,         \* seed -> draws revealed so far
    runsDone,       \* completed iterations of the n_runs loop
    stats,          \* tally of the run in progress
    current_round,  \* teams alive in the round in progress
    next_round,     \* winners collected in the round in progress
    i,              \* index of the pair being played
    fixture,        \* home, away, probs, outcome, winner of the last match
    summary,        \* team -> counts and probabilities
    db,             \* SimulationRun table
    result,         \* value returned by the request
    calls,          \* number of the request in progress
    history,        \* outcomes of the earlier requests
    modelLoads,     \* load_active_model calls of this request
    modelCalls,     \* predict_proba calls of this request
    model_runs,     \* ModelRun table: status per run, id = position
    cache,          \* _ACTIVE_MODEL_ARTIFACT and _ACTIVE_MODEL_RUN_ID
    artifact,       \* artifact checked at the start of the request
    used,           \* artifacts the matches of the request were played with
    adminOps,       \* completed run_training and set_active_model calls
    lastAdmin,      \* the last completed run_training / set_active_model
    thr,            \* threads inside load_active_model / set_active_model
    parked,         \* locals of the request that is not running
    tid             \* the request that is running

vars == <<teams, n_runs, stub, modelAvailable, pc, error, unique_teams,
          aggregate, rng, stream, runsDone, stats, current_round, next_round,
          i, fixture, summary, db, result, calls, history, modelLoads,
          modelCalls, model_runs, cache, artifact, used, adminOps, lastAdmin,
          thr, parked, tid>>

\* Arguments and state that no step of a request writes.
inputs == <<teams, n_runs, stub, modelAvailable, model_runs, adminOps,
            lastAdmin, thr, parked, tid>>

\* What load_active_model gives a request, and the module-level cache.
loaded == <<cache, artifact, used>>

\* None of the module-level cache; artifacts and run ids are numbered from 1.
EmptyCache == [artifact |-> 0, run_id |-> 0]

NoAdmin == [op |-> "", id |-> 0, ok |-> TRUE]

\* get_latest_active_model_run: id of the newest ACTIVE run, 0 for None.
LatestActive(runs) ==
    MaxRank({k \in 1..Len(runs) : runs[k] = "ACTIVE"})

LoadActive_default(c, runs) ==
    IF c.artifact # 0 /\ c.run_id # 0
    THEN [ok |-> TRUE, artifact |-> c.artifact, cache |-> c]
    ELSE LET r == LatestActive(runs)
         IN  [ok |-> TRUE, artifact |-> r, cache |-> [artifact |-> r, run_id |-> r]]

\* load_active_model: the cached artifact if both globals are set, else the
\* artifact of the newest ACTIVE run (then cached), else RuntimeError.
LoadActive(c, runs) ==
    IF c.artifact # 0 /\ c.run_id # 0
    THEN [ok |-> TRUE, artifact |-> c.artifact, cache |-> c]
    ELSE LET r == LatestActive(runs)
         IN  IF r = 0
             THEN [ok |-> FALSE, artifact |-> 0, cache |-> c]
             ELSE [ok |-> TRUE, artifact |-> r,
                   cache |-> [artifact |-> r, run_id |-> r]]

NoTally == [t \in {} |-> ZeroTally]

NoFixture ==
    [home |-> "", away |-> "", probs |-> <<0, 0, 0>>, outcome |-> "",
     winner |-> ""]

NoResult ==
    [status |-> "", simulation_id |-> 0, n_runs |-> 0, model_run_id |-> 0]

\* dict.items(): the key/value pairs of a dict in insertion order, which is
\* also how the JSON column holds the object.
Items(order, dict) == [k \in 1..Len(order) |-> <<order[k], dict[order[k]]>>]

\* [TeamProbability(team=team, **stats_dict) for team, stats_dict in items].
TeamProbs(items) ==
    [k \in 1..Len(items) |->
        [team       |-> items[k][1],
         wins       |-> items[k][2].wins,
         finals     |-> items[k][2].finals,
         semis      |-> items[k][2].semis,
         win_prob   |-> items[k][2].win_prob,
         final_prob |-> items[k][2].final_prob,
         semi_prob  |-> items[k][2].semi_prob]]

NotFound == [simulation_id |-> 0, results |-> <<>>]

GetSimulation_first(table, simulation_id) ==
    IF table = <<>> THEN NotFound
    ELSE [simulation_id |-> table[1].id,
          results |-> TeamProbs(table[1].results)]

\* get_simulation: the row with this id (404 if none) as SimulationResponse.
GetSimulation(table, simulation_id) ==
    LET hits == {k \in 1..Len(table) : table[k].id = simulation_id}
    IN  IF hits = {} THEN NotFound
        ELSE LET sim == table[CHOOSE k \in hits : TRUE]
             IN  [simulation_id |-> sim.id, results |-> TeamProbs(sim.results)]

\* What a caller observes of a finished request.
Outcome == [status |-> pc, error |-> error, summary |-> summary]

Init ==
    /\ teams \in TeamLists
    /\ n_runs \in RunCounts
    /\ stub \in Stubs
    /\ modelAvailable \in BOOLEAN
    /\ pc = "start"
    /\ error = ""
    /\ unique_teams = <<>>
    /\ aggregate = NoTally
    /\ rng = NoRng
    /\ stream = [s \in {Seed} |-> <<>>]
    /\ runsDone = 0
    /\ stats = NoTally
    /\ current_round = <<>>
    /\ next_round = <<>>
    /\ i = 0
    /\ fixture = NoFixture
    /\ summary = NoTally
    /\ db = <<>>
    /\ result = NoResult
    /\ calls = 1
    /\ history = <<>>
    /\ modelLoads = 0
    /\ modelCalls = 0
    /\ model_runs = IF modelAvailable THEN <<"ACTIVE">> ELSE <<>>
    /\ cache = EmptyCache
    /\ artifact = 0
    /\ used = {}
    /\ adminOps = 0
    /\ lastAdmin = NoAdmin
    /\ thr = <<>>
    /\ parked = <<>>
    /\ tid = 1

\* ---------------------------------------------------------------- actions
\* len(teams) < 2 and power-of-two checks on the list as passed in.
Validate ==
    /\ pc = "start"
    /\ IF Len(teams) < 2 \/ ~_is_power_of_two(Len(teams))
       THEN pc' = "raised" /\ error' = "ValueError"
       ELSE pc' = "dedup" /\ error' = error
    /\ UNCHANGED <<inputs, loaded, unique_teams, aggregate, rng, stream, runsDone,
                   stats, current_round, next_round, i, fixture, summary, db,
                   result, calls, history, modelLoads, modelCalls>>

\* Remove duplicates but preserve order.
Deduplicate ==
    /\ pc = "dedup"
    /\ unique_teams' = Dedup(teams)
    /\ pc' = "load"
    /\ UNCHANGED <<inputs, loaded, error, aggregate, rng, stream, runsDone, stats,
                   current_round, next_round, i, fixture, summary, db, result,
                   calls, history, modelLoads, modelCalls>>

\* load_active_model (raises if no ACTIVE run), aggregate and generator.
LoadModel ==
    /\ pc = "load"
    /\ modelLoads' = modelLoads + 1
    /\ LET got == LoadActive(cache, model_runs)
       IN  /\ cache' = got.cache
           /\ artifact' = got.artifact
           /\ IF ~got.ok
              THEN /\ pc' = "raised"
                   /\ error' = "RuntimeError"
                   /\ UNCHANGED <<aggregate, rng, stream, runsDone>>
              ELSE /\ aggregate' = [t \in Range(unique_teams) |-> ZeroTally]
                   /\ rng' = NewGenerator(calls)
                   /\ stream' = Open(stream, NewGenerator(calls).seed)
                   /\ runsDone' = 0
                   /\ pc' = "loop"
                   /\ error' = error
    /\ UNCHANGED <<inputs, used, unique_teams, stats, current_round,
                   next_round, i, fixture, summary, db, result, calls,
                   history, modelCalls>>

Mark_first(st, round, f) ==
    [t \in DOMAIN st |->
        IF t = round[1] THEN [st[t] EXCEPT ![f] = @ + 1] ELSE st[t]]

\* Tally after marking every team of the round in field f.
Mark(st, round, f) ==
    [t \in DOMAIN st |->
        IF t \in Range(round) THEN [st[t] EXCEPT ![f] = @ + 1] ELSE st[t]]

MarkRound_no_finals(st, round) ==
    IF Len(round) = 4 THEN Mark(st, round, "semis") ELSE st

MarkRound_swapped(st, round) ==
    LET n == Len(round)
        s4 == IF n = 4 THEN Mark(st, round, "finals") ELSE st
    IN  IF n = 2 THEN Mark(s4, round, "semis") ELSE s4

\* Semifinalists marked in the round of 4, finalists in the round of 2.
MarkRound(st, round) ==
    LET n == Len(round)
        s4 == IF n = 4 THEN Mark(st, round, "semis") ELSE st
    IN  IF n = 2 THEN Mark(s4, round, "finals") ELSE s4

Accumulate_overwrite(agg, st) ==
    [t \in DOMAIN agg |->
        [wins   |-> st[t].wins,
         finals |-> agg[t].finals + st[t].finals,
         semis  |-> agg[t].semis + st[t].semis]]

\* aggregate[team][...] += s[...] for every team of the run.
Accumulate(agg, st) ==
    [t \in DOMAIN agg |->
        [wins   |-> agg[t].wins + st[t].wins,
         finals |-> agg[t].finals + st[t].finals,
         semis  |-> agg[t].semis + st[t].semis]]

Winner_swapped(home, away, outcome, coin) ==
    IF outcome = "home_win" THEN away
    ELSE IF outcome = "away_win" THEN home
    ELSE <<home, away>>[coin + 1]

Winner_home_on_away(home, away, outcome, coin) ==
    IF outcome = "home_win" THEN home
    ELSE IF outcome = "away_win" THEN home
    ELSE <<home, away>>[coin + 1]

\* Winner of a match from the drawn outcome and the coin of a draw.
Winner(home, away, outcome, coin) ==
    IF outcome = "home_win" THEN home
    ELSE IF outcome = "away_win" THEN away
    ELSE <<home, away>>[coin + 1]

StartRun_in_place ==
    /\ pc = "loop"
    /\ runsDone < n_runs
    /\ \E js \in ShuffleDraws(Len(unique_teams)) :
        LET entries == ShuffleEntries(Len(unique_teams), js)
        IN  /\ Replays(stream[rng.seed], rng.pos, entries)
            /\ stream' = [stream EXCEPT ![rng.seed] = Reveal(@, rng.pos, entries)]
            /\ rng' = [rng EXCEPT !.pos = @ + Len(entries)]
            /\ current_round' = FisherYates(unique_teams, Len(unique_teams) - 1, js)
            /\ unique_teams' = FisherYates(unique_teams, Len(unique_teams) - 1, js)
    /\ stats' = [t \in Range(unique_teams) |-> ZeroTally]
    /\ pc' = "round"
    /\ UNCHANGED <<inputs, loaded, error, aggregate, runsDone,
                   next_round, i, fixture, summary, db, result, calls,
                   history, modelLoads, modelCalls>>

StartRun_reseed ==
    /\ pc = "loop"
    /\ runsDone < n_runs
    /\ \E js \in ShuffleDraws(Len(unique_teams)) :
        LET entries == ShuffleEntries(Len(unique_teams), js)
        IN  /\ Replays(stream[rng.seed], 0, entries)
            /\ stream' = [stream EXCEPT ![rng.seed] = Reveal(@, 0, entries)]
            /\ rng' = [rng EXCEPT !.pos = Len(entries)]
            /\ current_round' = FisherYates(unique_teams, Len(unique_teams) - 1, js)
    /\ stats' = [t \in Range(unique_teams) |-> ZeroTally]
    /\ pc' = "round"
    /\ UNCHANGED <<inputs, loaded, error, unique_teams, aggregate, runsDone,
                   next_round, i, fixture, summary, db, result, calls,
                   history, modelLoads, modelCalls>>

\* Loop iteration starts: fresh stats, copy of the team list, rng.shuffle.
StartRun ==
    /\ pc = "loop"
    /\ runsDone < n_runs
    /\ \E js \in ShuffleDraws(Len(unique_teams)) :
        LET entries == ShuffleEntries(Len(unique_teams), js)
        IN  /\ Replays(stream[rng.seed], rng.pos, entries)
            /\ stream' = [stream EXCEPT ![rng.seed] = Reveal(@, rng.pos, entries)]
            /\ rng' = [rng EXCEPT !.pos = @ + Len(entries)]
            /\ current_round' = FisherYates(unique_teams, Len(unique_teams) - 1, js)
    /\ stats' = [t \in Range(unique_teams) |-> ZeroTally]
    /\ pc' = "round"
    /\ UNCHANGED <<inputs, loaded, error, unique_teams, aggregate, runsDone,
                   next_round, i, fixture, summary, db, result, calls,
                   history, modelLoads, modelCalls>>

\* while len(current_round) > 1: mark semifinalists and finalists.
BeginRound ==
    /\ pc = "round"
    /\ Len(current_round) > 1
    /\ stats' = MarkRound(stats, current_round)
    /\ next_round' = <<>>
    /\ i' = 0
    /\ pc' = "match"
    /\ UNCHANGED <<inputs, loaded, error, unique_teams, aggregate, rng, stream,
                   runsDone, current_round, fixture, summary, db, result,
                   calls, history, modelLoads, modelCalls>>

\* One pair: model call, normalisation, outcome draw, winner appended.
PlayMatch ==
    /\ pc = "match"
    /\ i + 1 < Len(current_round)
    /\ LET home == current_round[i + 1]
           away == current_round[i + 2]
           probs == Model(stub, home, away)
           probs_arr == Normalize(probs)
       IN  \E o \in Support(probs_arr), coin \in 0..1 :
            LET outcome == Labels[o]
                entries ==
                    IF outcome = "draw"
                    THEN <<[req |-> CatReq(probs_arr), val |-> o],
                           [req |-> IntReq(2), val |-> coin]>>
                    ELSE <<[req |-> CatReq(probs_arr), val |-> o]>>
                winner == Winner(home, away, outcome, coin)
            IN  /\ outcome # "draw" => coin = 0
                /\ Replays(stream[rng.seed], rng.pos, entries)
                /\ stream' = [stream EXCEPT ![rng.seed] = Reveal(@, rng.pos, entries)]
                /\ rng' = [rng EXCEPT !.pos = @ + Len(entries)]
                /\ fixture' = [home |-> home, away |-> away, probs |-> probs,
                               outcome |-> outcome, winner |-> winner]
                /\ next_round' = Append(next_round, winner)
                /\ IF i + 2 < Len(current_round)
                   THEN /\ i' = i + 2
                        /\ pc' = "match"
                        /\ current_round' = current_round
                   ELSE /\ i' = i
                        /\ pc' = "round"
                        /\ current_round' = Append(next_round, winner)
    /\ LET got == LoadActive(cache, model_runs)
       IN  /\ cache' = got.cache
           /\ used' = used \cup {got.artifact}
    /\ modelLoads' = modelLoads + 1
    /\ modelCalls' = modelCalls + 1
    /\ UNCHANGED <<inputs, artifact, error, unique_teams, aggregate, runsDone, stats,
                   summary, db, result, calls, history>>

\* away = current_round[i + 1] past the end of an odd-length round.
MatchIndexError ==
    /\ pc = "match"
    /\ ~(i + 1 < Len(current_round))
    /\ pc' = "raised"
    /\ error' = "IndexError"
    /\ UNCHANGED <<inputs, loaded, unique_teams, aggregate, rng, stream, runsDone,
                   stats, current_round, next_round, i, fixture, summary, db,
                   result, calls, history, modelLoads, modelCalls>>

\* The run ends: champion marked, stats added to the aggregate.
EndRun ==
    /\ pc = "round"
    /\ ~(Len(current_round) > 1)
    /\ LET champion == current_round[1]
           final == [stats EXCEPT ![champion].wins = @ + 1]
       IN  /\ stats' = final
           /\ aggregate' = Accumulate(aggregate, final)
    /\ runsDone' = runsDone + 1
    /\ pc' = "loop"
    /\ UNCHANGED <<inputs, loaded, error, unique_teams, rng, stream, current_round,
                   next_round, i, fixture, summary, db, result, calls,
                   history, modelLoads, modelCalls>>

\* Convert counts to probabilities (count / n_runs per team).
Summarize ==
    /\ pc = "loop"
    /\ ~(runsDone < n_runs)
    /\ IF n_runs = 0 /\ DOMAIN aggregate # {}
       THEN /\ pc' = "raised"
            /\ error' = "ZeroDivisionError"
            /\ summary' = summary
       ELSE /\ pc' = "persist"
            /\ error' = error
            /\ summary' =
                [t \in DOMAIN aggregate |->
                    [wins       |-> aggregate[t].wins,
                     finals     |-> aggregate[t].finals,
                     semis      |-> aggregate[t].semis,
                     win_prob   |-> Frac(aggregate[t].wins, n_runs),
                     final_prob |-> Frac(aggregate[t].finals, n_runs),
                     semi_prob  |-> Frac(aggregate[t].semis, n_runs)]]
    /\ UNCHANGED <<inputs, loaded, unique_teams, aggregate, rng, stream, runsDone,
                   stats, current_round, next_round, i, fixture, db, result,
                   calls, history, modelLoads, modelCalls>>

\* get_latest_active_model_run, SimulationRun added and committed, return.
Persist ==
    /\ pc = "persist"
    /\ LET model_run_id == LatestActive(model_runs)
           simulation_id == Len(db) + 1
       IN  /\ db' = Append(db, [id |-> simulation_id, teams |-> unique_teams,
                                n_runs |-> n_runs,
                                results |-> Items(unique_teams, summary),
                                model_run_id |-> model_run_id])
           /\ result' = [status |-> "success", simulation_id |-> simulation_id,
                         n_runs |-> n_runs, model_run_id |-> model_run_id]
    /\ pc' = "returned"
    /\ UNCHANGED <<inputs, loaded, error, unique_teams, aggregate, rng, stream,
                   runsDone, stats, current_round, next_round, i, fixture,
                   summary, calls, history, modelLoads, modelCalls>>

\* The caller issues the same request again.
Reissue ==
    /\ pc \in {"returned", "raised"}
    /\ history = <<>>
    /\ history' = Append(history, Outcome)
    /\ calls' = calls + 1
    /\ pc' = "start"
    /\ error' = ""
    /\ unique_teams' = <<>>
    /\ aggregate' = NoTally
    /\ rng' = NoRng
    /\ runsDone' = 0
    /\ stats' = NoTally
    /\ current_round' = <<>>
    /\ next_round' = <<>>
    /\ i' = 0
    /\ fixture' = NoFixture
    /\ summary' = NoTally
    /\ result' = NoResult
    /\ modelLoads' = 0
    /\ modelCalls' = 0
    /\ artifact' = 0
    /\ used' = {}
    /\ UNCHANGED <<inputs, cache, stream, db>>

Next ==
    \/ Validate
    \/ Deduplicate
    \/ LoadModel
    \/ StartRun
    \/ BeginRound
    \/ PlayMatch
    \/ MatchIndexError
    \/ EndRun
    \/ Summarize
    \/ Persist

Spec == Init /\ [][Next]_vars

\* The same request issued twice in one process.
InitTwice == Init /\ n_runs <= MaxReplayRuns

NextTwice ==
    \/ Validate
    \/ Deduplicate
    \/ LoadModel
    \/ StartRun
    \/ BeginRound
    \/ PlayMatch
    \/ MatchIndexError
    \/ EndRun
    \/ Summarize
    \/ Persist
    \/ Reissue

SpecTwice == InitTwice /\ [][NextTwice]_vars

\* ------------------------------------------------- a failing model call
ModelCallFails_partial ==
    /\ pc = "match"
    /\ i + 1 < Len(current_round)
    /\ pc' = "persist"
    /\ error' = "ModelCallFailure"
    /\ modelLoads' = modelLoads + 1
    /\ UNCHANGED <<inputs, loaded, unique_teams, aggregate, rng, stream,
                   runsDone, stats, current_round, next_round, i, fixture,
                   summary, db, result, calls, history, modelCalls>>

\* simulate_match raises for the pair about to be played (the artifact
\* cannot be loaded, the encoder does not know a team, predict_proba fails);
\* nothing in _simulate_single_tournament or simulate_tournament catches it.
ModelCallFails ==
    /\ pc = "match"
    /\ i + 1 < Len(current_round)
    /\ pc' = "raised"
    /\ error' = "ModelCallFailure"
    /\ modelLoads' = modelLoads + 1
    /\ UNCHANGED <<inputs, loaded, unique_teams, aggregate, rng, stream,
                   runsDone, stats, current_round, next_round, i, fixture,
                   summary, db, result, calls, history, modelCalls>>

NextFail ==
    \/ Validate
    \/ Deduplicate
    \/ LoadModel
    \/ StartRun
    \/ BeginRound
    \/ PlayMatch
    \/ ModelCallFails
    \/ MatchIndexError
    \/ EndRun
    \/ Summarize
    \/ Persist

\* A failure does not depend on the probabilities the model would have
\* returned: one stub, with an ACTIVE model to call.
InitFail ==
    /\ Init
    /\ stub = "alpha"
    /\ modelAvailable

\* One request whose model call may fail in any match.
SpecFail == InitFail /\ [][NextFail]_vars

\* ------------------------------------------------------ the model registry
\* UPDATE model_runs SET status = INACTIVE WHERE status = ACTIVE.
Deactivate(runs) ==
    [k \in 1..Len(runs) |-> IF runs[k] = "ACTIVE" THEN "INACTIVE" ELSE runs[k]]

Register_keep_active(runs) == Append(runs, "ACTIVE")

\* run_training step 8: older ACTIVE runs made INACTIVE, the new run added
\* as ACTIVE, one commit.
Register(runs) == Append(Deactivate(runs), "ACTIVE")

Activate_no_rollback(runs, id) ==
    IF id \in 1..Len(runs)
    THEN [ok |-> TRUE, runs |-> [Deactivate(runs) EXCEPT ![id] = "ACTIVE"]]
    ELSE [ok |-> FALSE, runs |-> Deactivate(runs)]

\* set_active_model on the table: ACTIVE runs made INACTIVE, the chosen run
\* made ACTIVE and committed; an unknown id raises before the commit and the
\* session is closed, which rolls the update back.
Activate(runs, id) ==
    IF id \in 1..Len(runs)
    THEN [ok |-> TRUE, runs |-> [Deactivate(runs) EXCEPT ![id] = "ACTIVE"]]
    ELSE [ok |-> FALSE, runs |-> runs]

\* run_training, called between two requests; the cache is not touched.
RunTraining ==
    /\ pc = "start"
    /\ adminOps < MaxAdmin
    /\ model_runs' = Register(model_runs)
    /\ adminOps' = adminOps + 1
    /\ lastAdmin' = [op |-> "train", id |-> Len(model_runs) + 1, ok |-> TRUE]
    /\ UNCHANGED <<teams, n_runs, stub, modelAvailable, thr, parked, tid,
                   loaded, pc, error, unique_teams, aggregate, rng, stream,
                   runsDone, stats, current_round, next_round, i, fixture,
                   summary, db, result, calls, history, modelLoads,
                   modelCalls>>

\* set_active_model(id), called between two requests; id Len + 1 is an id
\* no ModelRun has.  The cache is cleared only after a successful commit.
SetActiveModel ==
    /\ pc = "start"
    /\ adminOps < MaxAdmin
    /\ \E id \in 1..(Len(model_runs) + 1) :
        LET tx == Activate(model_runs, id)
        IN  /\ model_runs' = tx.runs
            /\ cache' = IF tx.ok THEN EmptyCache ELSE cache
            /\ lastAdmin' = [op |-> "activate", id |-> id, ok |-> tx.ok]
    /\ adminOps' = adminOps + 1
    /\ UNCHANGED <<teams, n_runs, stub, modelAvailable, thr, parked, tid,
                   artifact, used, pc, error, unique_teams, aggregate, rng,
                   stream, runsDone, stats, current_round, next_round, i,
                   fixture, summary, db, result, calls, history, modelLoads,
                   modelCalls>>

InitAdmin ==
    /\ Init
    /\ Len(teams) <= MaxAdminLen
    /\ n_runs <= MaxReplayRuns

\* An accepted list of these lengths has one or two distinct teams, so no
\* round has an odd length above one and the pair loop never runs past the
\* end of the round.
NextAdmin ==
    \/ Validate
    \/ Deduplicate
    \/ LoadModel
    \/ StartRun
    \/ BeginRound
    \/ PlayMatch
    \/ EndRun
    \/ Summarize
    \/ Persist
    \/ Reissue
    \/ RunTraining
    \/ SetActiveModel

\* Requests of one process with training and activation between them.
SpecAdmin == InitAdmin /\ [][NextAdmin]_vars

\* ------------------------------------- threads in the model registry
\* The endpoints are plain def functions, which the framework runs on a
\* thread pool; a thread can be preempted between any two reads or writes
\* of the module-level cache.  thr holds one record per thread that entered
\* load_active_model or set_active_model.

\* State that no thread of the registry writes.
request == <<teams, n_runs, stub, modelAvailable, pc, error, unique_teams,
             aggregate, rng, stream, runsDone, stats, current_round,
             next_round, i, fixture, summary, db, result, calls, history,
             modelLoads, modelCalls, artifact, used, adminOps, parked, tid>>

Thread(op, arg, after) ==
    [op |-> op, at |-> "enter", arg |-> arg, run |-> 0, art |-> 0,
     ret |-> 0, after |-> after]

\* Every set_active_model call that was started has returned or raised.
SwapsOver ==
    /\ \E t \in DOMAIN thr : thr[t].op = "activate"
    /\ \A t \in DOMAIN thr :
        thr[t].op = "activate" => thr[t].at \in {"done", "raised"}

\* run_training calls made before any thread enters the registry.
TrainBefore ==
    /\ thr = <<>>
    /\ RunTraining

\* A request thread calls load_active_model.
EnterLoad ==
    /\ Len(thr) < MaxThreads
    /\ thr' = Append(thr, Thread("load", 0, SwapsOver))
    /\ UNCHANGED <<request, model_runs, cache, lastAdmin>>

\* An admin thread calls set_active_model(id); one such call per behaviour.
EnterActivate ==
    /\ Len(thr) < MaxThreads
    /\ \A t \in DOMAIN thr : thr[t].op # "activate"
    /\ \E id \in 1..(Len(model_runs) + 1) :
        thr' = Append(thr, Thread("activate", id, FALSE))
    /\ UNCHANGED <<request, model_runs, cache, lastAdmin>>

\* Line 112, left operand: _ACTIVE_MODEL_ARTIFACT is not None.
CheckArtifact ==
    \E t \in DOMAIN thr :
        /\ thr[t].op = "load"
        /\ thr[t].at = "enter"
        /\ thr' = [thr EXCEPT ![t].at =
                      IF cache.artifact # 0 THEN "check_id" ELSE "query"]
        /\ UNCHANGED <<request, model_runs, cache, lastAdmin>>

\* Line 112, right operand: _ACTIVE_MODEL_RUN_ID is not None.
CheckRunId ==
    \E t \in DOMAIN thr :
        /\ thr[t].at = "check_id"
        /\ thr' = [thr EXCEPT ![t].at =
                      IF cache.run_id # 0 THEN "cached" ELSE "query"]
        /\ UNCHANGED <<request, model_runs, cache, lastAdmin>>

\* Line 113: the global is read again for the return value.
ReturnCached ==
    \E t \in DOMAIN thr :
        /\ thr[t].at = "cached"
        /\ thr' = [thr EXCEPT ![t].at = "done", ![t].ret = cache.artifact]
        /\ UNCHANGED <<request, model_runs, cache, lastAdmin>>

\* Lines 116-125: the latest ACTIVE run is queried and its file unpickled;
\* the artifact of run k is numbered k.
QueryActive ==
    \E t \in DOMAIN thr :
        /\ thr[t].at = "query"
        /\ LET r == LatestActive(model_runs)
           IN  thr' = [thr EXCEPT ![t].at = IF r = 0 THEN "raised"
                                             ELSE "set_artifact",
                                  ![t].run = r,
                                  ![t].art = r]
        /\ UNCHANGED <<request, model_runs, cache, lastAdmin>>

\* Line 128.
SetArtifact ==
    \E t \in DOMAIN thr :
        /\ thr[t].at = "set_artifact"
        /\ cache' = [cache EXCEPT !.artifact = thr[t].art]
        /\ thr' = [thr EXCEPT ![t].at = "set_run_id"]
        /\ UNCHANGED <<request, model_runs, lastAdmin>>

\* Lines 129-131.
SetRunId ==
    \E t \in DOMAIN thr :
        /\ thr[t].at = "set_run_id"
        /\ cache' = [cache EXCEPT !.run_id = thr[t].run]
        /\ thr' = [thr EXCEPT ![t].at = "done", ![t].ret = thr[t].art]
        /\ UNCHANGED <<request, model_runs, lastAdmin>>

\* Lines 59-75: the update, the lookup and the commit of one session.
CommitActivate ==
    \E t \in DOMAIN thr :
        /\ thr[t].op = "activate"
        /\ thr[t].at = "enter"
        /\ LET tx == Activate(model_runs, thr[t].arg)
           IN  /\ model_runs' = tx.runs
               /\ lastAdmin' = [op |-> "activate", id |-> thr[t].arg,
                                ok |-> tx.ok]
               /\ thr' = [thr EXCEPT ![t].at = IF tx.ok THEN "clear_artifact"
                                                ELSE "raised"]
        /\ UNCHANGED <<request, cache>>

\* Line 78.
ClearArtifact ==
    \E t \in DOMAIN thr :
        /\ thr[t].at = "clear_artifact"
        /\ cache' = [cache EXCEPT !.artifact = 0]
        /\ thr' = [thr EXCEPT ![t].at = "clear_run_id"]
        /\ UNCHANGED <<request, model_runs, lastAdmin>>

\* Line 79.
ClearRunId ==
    \E t \in DOMAIN thr :
        /\ thr[t].at = "clear_run_id"
        /\ cache' = [cache EXCEPT !.run_id = 0]
        /\ thr' = [thr EXCEPT ![t].at = "done"]
        /\ UNCHANGED <<request, model_runs, lastAdmin>>

InitRace ==
    /\ Init
    /\ teams = <<"A", "B">>
    /\ n_runs = 1
    /\ stub = "home"

NextRace ==
    \/ TrainBefore
    \/ EnterLoad
    \/ EnterActivate
    \/ CheckArtifact
    \/ CheckRunId
    \/ ReturnCached
    \/ QueryActive
    \/ SetArtifact
    \/ SetRunId
    \/ CommitActivate
    \/ ClearArtifact
    \/ ClearRunId

\* Threads of the registry, preempted between any two steps.
SpecRace == InitRace /\ [][NextRace]_vars

\* ---------------------------------------------- two concurrent requests
\* Two simulate_tournament calls on two threads of one process.  The
\* request variables are those of the running thread; parked holds the
\* locals of the other one.  The ModelRun and SimulationRun tables, the
\* model cache and the stub model are shared.
shared == <<stub, modelAvailable, stream, db, cache, model_runs, calls,
            history, adminOps, lastAdmin, thr>>

\* The arguments and locals of the running call.
Locals ==
    [teams |-> teams, n_runs |-> n_runs, pc |-> pc, error |-> error,
     unique_teams |-> unique_teams, aggregate |-> aggregate, rng |-> rng,
     runsDone |-> runsDone, stats |-> stats,
     current_round |-> current_round, next_round |-> next_round, i |-> i,
     fixture |-> fixture, summary |-> summary, result |-> result,
     modelLoads |-> modelLoads, modelCalls |-> modelCalls,
     artifact |-> artifact, used |-> used]

\* The locals of a call that has not started.
Fresh(ts, n) ==
    [teams |-> ts, n_runs |-> n, pc |-> "start", error |-> "",
     unique_teams |-> <<>>, aggregate |-> NoTally, rng |-> NoRng,
     runsDone |-> 0, stats |-> NoTally, current_round |-> <<>>,
     next_round |-> <<>>, i |-> 0, fixture |-> NoFixture,
     summary |-> NoTally, result |-> NoResult, modelLoads |-> 0,
     modelCalls |-> 0, artifact |-> 0, used |-> {}]

\* The thread whose locals are l runs next.
Resume(l) ==
    /\ teams' = l.teams
    /\ n_runs' = l.n_runs
    /\ pc' = l.pc
    /\ error' = l.error
    /\ unique_teams' = l.unique_teams
    /\ aggregate' = l.aggregate
    /\ rng' = l.rng
    /\ runsDone' = l.runsDone
    /\ stats' = l.stats
    /\ current_round' = l.current_round
    /\ next_round' = l.next_round
    /\ i' = l.i
    /\ fixture' = l.fixture
    /\ summary' = l.summary
    /\ result' = l.result
    /\ modelLoads' = l.modelLoads
    /\ modelCalls' = l.modelCalls
    /\ artifact' = l.artifact
    /\ used' = l.used

ConcLists ==
    {ts \in UNION {[1..n -> NameSet] : n \in 0..MaxAdminLen} :
        FirstOccurrencesInOrder(ts)}

ConcRunCounts == {n \in RunCounts : n <= MaxReplayRuns}

\* A second request arrives on another thread before the first has started.
Arrive ==
    /\ parked = <<>>
    /\ pc = "start"
    /\ \E ts \in ConcLists, n \in ConcRunCounts :
        /\ parked' = Locals
        /\ Resume(Fresh(ts, n))
    /\ tid' = tid + 1
    /\ UNCHANGED shared

Switch_shared_rng ==
    /\ parked # <<>>
    /\ parked.pc \notin {"returned", "raised"}
    /\ parked' = Locals
    /\ Resume([parked EXCEPT !.rng = rng])
    /\ tid' = IF tid = 1 THEN tid + 1 ELSE tid - 1
    /\ UNCHANGED shared

\* The running thread is preempted and the other one, not yet finished,
\* continues with its own locals.
Switch ==
    /\ parked # <<>>
    /\ parked.pc \notin {"returned", "raised"}
    /\ parked' = Locals
    /\ Resume(parked)
    /\ tid' = IF tid = 1 THEN tid + 1 ELSE tid - 1
    /\ UNCHANGED shared

InitConc ==
    /\ Init
    /\ teams \in ConcLists
    /\ n_runs \in ConcRunCounts

\* As in NextAdmin, rounds of these requests have one or two teams.
NextConc ==
    \/ Validate
    \/ Deduplicate
    \/ LoadModel
    \/ StartRun
    \/ BeginRound
    \/ PlayMatch
    \/ EndRun
    \/ Summarize
    \/ Persist
    \/ Arrive
    \/ Switch

SpecConc == InitConc /\ [][NextConc]_vars

\* ------------------------------------- admin calls during a request
\* run_training and set_active_model on another thread while the request
\* is between two of its steps.
InFlight == pc \in {"dedup", "load", "loop", "round", "match", "persist"}

RunTrainingInFlight ==
    /\ InFlight
    /\ adminOps < MaxAdmin
    /\ model_runs' = Register(model_runs)
    /\ adminOps' = adminOps + 1
    /\ lastAdmin' = [op |-> "train", id |-> Len(model_runs) + 1, ok |-> TRUE]
    /\ UNCHANGED <<teams, n_runs, stub, modelAvailable, thr, parked, tid,
                   loaded, pc, error, unique_teams, aggregate, rng, stream,
                   runsDone, stats, current_round, next_round, i, fixture,
                   summary, db, result, calls, history, modelLoads,
                   modelCalls>>

SetActiveModelInFlight ==
    /\ InFlight
    /\ adminOps < MaxAdmin
    /\ \E id \in 1..(Len(model_runs) + 1) :
        LET tx == Activate(model_runs, id)
        IN  /\ model_runs' = tx.runs
            /\ cache' = IF tx.ok THEN EmptyCache ELSE cache
            /\ lastAdmin' = [op |-> "activate", id |-> id, ok |-> tx.ok]
    /\ adminOps' = adminOps + 1
    /\ UNCHANGED <<teams, n_runs, stub, modelAvailable, thr, parked, tid,
                   artifact, used, pc, error, unique_teams, aggregate, rng,
                   stream, runsDone, stats, current_round, next_round, i,
                   fixture, summary, db, result, calls, history, modelLoads,
                   modelCalls>>

InitSwap ==
    /\ Init
    /\ teams \in ConcLists
    /\ n_runs \in ConcRunCounts

\* As in NextAdmin, rounds of these requests have one or two teams.
NextSwap ==
    \/ Validate
    \/ Deduplicate
    \/ LoadModel
    \/ StartRun
    \/ BeginRound
    \/ PlayMatch
    \/ EndRun
    \/ Summarize
    \/ Persist
    \/ RunTraining
    \/ SetActiveModel
    \/ RunTrainingInFlight
    \/ SetActiveModelInFlight

\* One request with training and activation before and during it.
SpecSwap == InitSwap /\ [][NextSwap]_vars

\* ----------------------------------------------------------- properties
\* n is a power of two, stated without the bit trick of the code.
PowerOfTwo(n) == \E k \in 0..n : 2 ^ k = n

RECURSIVE SumOver(_, _, _)
SumOver(f, S, fld) ==
    IF S = {} THEN 0
    ELSE LET t == CHOOSE x \in S : TRUE
         IN  f[t][fld] + SumOver(f, S \ {t}, fld)

\* Sum of one counter over all teams of a tally.
Total(f, fld) == SumOver(f, DOMAIN f, fld)

Finished == pc \in {"persist", "returned"}

\* The alphabetically smallest team of the bracket.
Smallest(ts) == CHOOSE t \in Range(ts) : \A u \in Range(ts) : ~Less(u, t)

\* C1: a request behaves as the request for its de-duplicated list does: it
\* is rejected with ValueError exactly when the de-duplicated list has fewer
\* than 2 teams or not a power of two of them, and a returned summary has
\* exactly the distinct teams as keys.
C1_BehavesAsDeduplicated ==
    /\ pc # "start" =>
        ((error = "ValueError") <=>
            (Len(Dedup(teams)) < 2 \/ ~PowerOfTwo(Len(Dedup(teams)))))
    /\ pc = "returned" => DOMAIN summary = Range(teams)

\* C2: a list of fewer than 2 teams or of a size that is no power of two is
\* rejected with ValueError before any model load, model call or random
\* draw, and nothing is persisted.
C2_InvalidSizeRejectedFirst ==
    (pc # "start" /\ (Len(teams) < 2 \/ ~PowerOfTwo(Len(teams)))) =>
        /\ pc = "raised"
        /\ error = "ValueError"
        /\ modelLoads = 0
        /\ modelCalls = 0
        /\ rng = NoRng
        /\ \A sd \in DOMAIN stream : stream[sd] = <<>>
        /\ db = <<>>

C2_Witness ==
    pc = "raised" /\ error = "ValueError" /\ Len(teams) = 3 /\ modelLoads = 0

\* C3: every completed run crowns exactly one champion, and for n_runs >= 1
\* the champion counts of a summary add up to n_runs.
C3_ChampionCountConserved ==
    /\ pc = "loop" => Total(aggregate, "wins") = runsDone
    /\ (pc = "loop" /\ runsDone > 0) => Total(stats, "wins") = 1
    /\ (Finished /\ n_runs >= 1) => Total(summary, "wins") = n_runs

C3_Witness ==
    /\ pc = "returned"
    /\ n_runs = 2
    /\ Len(unique_teams) = 4
    /\ stub = "mixed"
    /\ Total(summary, "wins") = 2

\* C4: for a bracket of 4 or more teams every completed run marks exactly 2
\* finalists and exactly 4 semifinalists, so a summary for n_runs >= 1 has
\* finalist counts adding up to 2 * n_runs and semifinalist counts adding up
\* to 4 * n_runs.
C4_FinalSemiConserved ==
    Len(unique_teams) >= 4 =>
        /\ pc = "loop" =>
            /\ Total(aggregate, "finals") = 2 * runsDone
            /\ Total(aggregate, "semis") = 4 * runsDone
        /\ (pc = "loop" /\ runsDone > 0) =>
            /\ Total(stats, "finals") = 2
            /\ Total(stats, "semis") = 4
        /\ (Finished /\ n_runs >= 1) =>
            /\ Total(summary, "finals") = 2 * n_runs
            /\ Total(summary, "semis") = 4 * n_runs

C4_Witness ==
    /\ pc = "returned"
    /\ n_runs = 2
    /\ Len(unique_teams) = 4
    /\ Total(summary, "finals") = 4
    /\ Total(summary, "semis") = 8

\* C5: in a 2-team tournament every run marks both teams finalists, is
\* decided by its only round and marks no semifinalist: after the runs both
\* teams have finals = n_runs and semis = 0.
C5_TwoTeamTournament ==
    Len(unique_teams) = 2 =>
        /\ pc = "loop" =>
            \A t \in DOMAIN aggregate :
                aggregate[t].finals = runsDone /\ aggregate[t].semis = 0
        /\ (pc = "round" /\ Len(current_round) = 1) =>
            /\ Len(next_round) = 1
            /\ \A t \in DOMAIN stats : stats[t].finals = 1 /\ stats[t].semis = 0
        /\ (Finished /\ n_runs >= 1) =>
            \A t \in DOMAIN summary :
                summary[t].finals = n_runs /\ summary[t].semis = 0

C5_Witness ==
    /\ pc = "returned"
    /\ n_runs = 2
    /\ Len(unique_teams) = 2
    /\ Len(teams) = 4
    /\ \A t \in DOMAIN summary : summary[t].finals = 2 /\ summary[t].semis = 0

\* A probability <<num, den>> is count / n and lies in [0, 1].
IsCountOverRuns(prob, count, n) ==
    /\ prob[2] > 0
    /\ prob[1] * n = count * prob[2]
    /\ 0 <= prob[1]
    /\ prob[1] <= prob[2]

\* C6: in every summary win_prob, final_prob and semi_prob of every team
\* equal the count divided by n_runs and lie in [0, 1]; for n_runs >= 1 every
\* count lies in 0..n_runs.
C6_ProbabilityBounds ==
    Finished =>
        \A t \in DOMAIN summary :
            /\ IsCountOverRuns(summary[t].win_prob, summary[t].wins, n_runs)
            /\ IsCountOverRuns(summary[t].final_prob, summary[t].finals, n_runs)
            /\ IsCountOverRuns(summary[t].semi_prob, summary[t].semis, n_runs)
            /\ n_runs >= 1 =>
                /\ summary[t].wins \in 0..n_runs
                /\ summary[t].finals \in 0..n_runs
                /\ summary[t].semis \in 0..n_runs

C6_Witness ==
    /\ pc = "returned"
    /\ n_runs = 2
    /\ \E t \in DOMAIN summary :
        /\ summary[t].wins = 1
        /\ summary[t].win_prob = <<1, 2>>
        /\ summary[t].semi_prob = <<1, 1>>

\* C7: the same request issued twice (same seed, team list, n_runs and stub
\* model) ends the same way both times: same summary, or same error.
C7_Deterministic ==
    (pc \in {"returned", "raised"} /\ history # <<>>) => history[1] = Outcome

C7_Witness ==
    /\ pc = "returned"
    /\ history # <<>>
    /\ history[1] = Outcome
    /\ Len(unique_teams) = 4
    /\ stub = "mixed"
    /\ n_runs = 1

\* C8: when the model returns 0 for home_win, draw and away_win the home
\* team of the fixture advances and the away team does not; the outcome draw
\* of such a fixture is always defined.
C8_DegenerateHomeWins ==
    /\ (fixture.home # "" /\ fixture.probs = <<0, 0, 0>>) =>
        /\ fixture.outcome = "home_win"
        /\ fixture.winner = fixture.home
        /\ fixture.winner # fixture.away
        /\ Len(next_round) > 0 => next_round[Len(next_round)] = fixture.home
    /\ (pc = "match" /\ i + 1 < Len(current_round)
            /\ Model(stub, current_round[i + 1], current_round[i + 2]) = <<0, 0, 0>>) =>
        Support(Normalize(<<0, 0, 0>>)) = {1}

C8_Witness ==
    /\ fixture.probs = <<0, 0, 0>>
    /\ fixture.home # ""
    /\ fixture.winner = fixture.home
    /\ pc = "round"
    /\ current_round = <<fixture.home>>
    /\ Len(unique_teams) = 4

\* C9: with the model that gives certain victory to the alphabetically first
\* team of a fixture, the alphabetically smallest team of the bracket is the
\* champion of every run: its champion count is n_runs under every shuffle.
C9_SmallestAlwaysChampion ==
    (stub = "alpha" /\ unique_teams # <<>>) =>
        /\ pc = "loop" => aggregate[Smallest(unique_teams)].wins = runsDone
        /\ (Finished /\ n_runs >= 1) =>
            summary[Smallest(unique_teams)].wins = n_runs

C9_Witness ==
    /\ pc = "returned"
    /\ stub = "alpha"
    /\ teams = <<"A", "B", "C", "D">>
    /\ n_runs = 2
    /\ summary["A"].wins = 2

\* C10: a request with n_runs <= 0 never returns or persists a result and
\* never divides by zero; it fails with ValueError.
C10_NonPositiveRunsRejected ==
    n_runs <= 0 =>
        /\ pc # "returned"
        /\ db = <<>>
        /\ error # "ZeroDivisionError"
        /\ pc = "raised" => error \in {"ValueError", "RuntimeError"}

\* C11: while no ModelRun is ACTIVE a request fails with RuntimeError at
\* load_active_model, before the first run: no generator, no draw, no
\* shuffle, no model call, and no SimulationRun is persisted.
C11_NoActiveModelFailsFast ==
    LatestActive(model_runs) = 0 =>
        /\ pc \in {"start", "dedup", "load", "raised"}
        /\ pc = "raised" => error \in {"ValueError", "RuntimeError"}
        /\ (pc = "raised" /\ modelLoads > 0) => error = "RuntimeError"
        /\ cache = EmptyCache
        /\ rng = NoRng
        /\ \A sd \in DOMAIN stream : stream[sd] = <<>>
        /\ current_round = <<>>
        /\ modelCalls = 0
        /\ db = <<>>

C11_Witness ==
    /\ LatestActive(model_runs) = 0
    /\ pc = "raised"
    /\ error = "RuntimeError"
    /\ teams = <<"A", "B">>
    /\ n_runs = 1
    /\ lastAdmin.op = "activate"

\* C13: the model_run_id returned for a simulation is the run whose artifact
\* was checked at the start of the request and played every match of it.
C13_RunIdIsModelUsed ==
    pc = "returned" =>
        /\ artifact = result.model_run_id
        /\ \A a \in used : a = result.model_run_id

\* C14: whatever load_active_model returned to a request is the artifact of
\* the run that is ACTIVE, also after a training or an activation.
C14_LoadReturnsActive ==
    artifact # 0 => artifact = LatestActive(model_runs)

ActiveRuns == {k \in 1..Len(model_runs) : model_runs[k] = "ACTIVE"}

\* C17: after every completed run_training or set_active_model call at most
\* one ModelRun is ACTIVE; after a successful call it is exactly the newly
\* trained or the chosen run.
C17_AtMostOneActive ==
    /\ Cardinality(ActiveRuns) <= 1
    /\ (lastAdmin.op # "" /\ lastAdmin.ok) => ActiveRuns = {lastAdmin.id}

C17_Witness ==
    /\ lastAdmin = [op |-> "activate", id |-> 1, ok |-> TRUE]
    /\ model_runs = <<"ACTIVE", "INACTIVE">>

\* C12: a model call that fails in any match of any run ends the request
\* with that failure: nothing is persisted, no summary is built and nothing
\* is returned.
C12_FailedRequestPersistsNothing ==
    error = "ModelCallFailure" =>
        /\ pc = "raised"
        /\ db = <<>>
        /\ summary = NoTally
        /\ result = NoResult

C12_Witness ==
    /\ error = "ModelCallFailure"
    /\ pc = "raised"
    /\ n_runs = 2
    /\ runsDone = 1
    /\ Len(current_round) = 4
    /\ Len(next_round) = 1
    /\ db = <<>>

\* C19: in every run of every accepted request the list of teams alive has
\* a length that is a power of two, and no pair lacks its second team.
C19_RoundsArePowersOfTwo ==
    /\ pc \in {"round", "match"} => PowerOfTwo(Len(current_round))
    /\ error # "IndexError"

\* The draws of the seeded stream that broke a draw: the coin values that
\* follow a categorical draw of "draw".
DrawCoins ==
    {stream[Seed][k + 1].val :
        k \in {j \in 1..(Len(stream[Seed]) - 1) :
                /\ stream[Seed][j].req.kind = "cat"
                /\ Labels[stream[Seed][j].val] = "draw"}}

\* C20: every match pairs the teams at indices i and i + 1 of the round and
\* appends exactly one of the two to the next round, so the k-th winner
\* comes from the k-th pair: the home team on home_win, the away team on
\* away_win, one of the two on draw; a finished round is replaced by its
\* winners.
C20_PairsAdvanceInOrder ==
    [][(pc = "match" /\ pc' \in {"match", "round"}) =>
        LET home == current_round[i + 1]
            away == current_round[i + 2]
            w == next_round'[Len(next_round')]
        IN  /\ next_round' = Append(next_round, w)
            /\ 2 * Len(next_round) = i
            /\ fixture'.home = home
            /\ fixture'.away = away
            /\ fixture'.winner = w
            /\ w \in {home, away}
            /\ fixture'.outcome = "home_win" => w = home
            /\ fixture'.outcome = "away_win" => w = away
            /\ pc' = "match" => (i' = i + 2 /\ current_round' = current_round)
            /\ pc' = "round" =>
                /\ current_round' = next_round'
                /\ 2 * Len(next_round') = Len(current_round)]_vars

C20_Witness ==
    /\ DrawCoins = {0, 1}
    /\ fixture.outcome = "draw"
    /\ fixture.winner = fixture.away
    /\ current_round = <<fixture.away>>

\* A reader: a load_active_model call that returned.
Readers == {t \in DOMAIN thr : thr[t].op = "load" /\ thr[t].at = "done"}

\* C15: with set_active_model and cache loads running beside readers, the
\* cached pair never holds the artifact of one run with the id of another,
\* every reader obtains an artifact, and a reader that starts after the swap
\* has completed obtains the artifact of the run that is now ACTIVE.
C15_SnapshotSwap ==
    /\ (cache.artifact # 0 /\ cache.run_id # 0) =>
            cache.artifact = cache.run_id
    /\ \A t \in Readers : thr[t].ret # 0
    /\ \A t \in Readers :
            thr[t].after => thr[t].ret = LatestActive(model_runs)

\* Both concurrent requests have returned or raised.
BothFinished ==
    /\ parked # <<>>
    /\ pc \in {"returned", "raised"}
    /\ parked.pc \in {"returned", "raised"}

\* C16: two concurrent requests share no tally and no generator: under
\* every interleaving, requests with the same arguments end with the same
\* status, error and summary, and each tally counts the runs of its own
\* request only.
C16_ConcurrentRequestsIndependent ==
    /\ (BothFinished /\ teams = parked.teams /\ n_runs = parked.n_runs) =>
            /\ pc = parked.pc
            /\ error = parked.error
            /\ summary = parked.summary
    /\ \A l \in {Locals} \cup (IF parked = <<>> THEN {} ELSE {parked}) :
            /\ DOMAIN l.aggregate \subseteq Range(l.unique_teams)
            /\ \A t \in DOMAIN l.aggregate :
                    /\ l.aggregate[t].wins <= l.runsDone
                    /\ l.aggregate[t].finals <= l.runsDone
            /\ l.rng.pos <= Len(stream[Seed])

C16_Witness ==
    /\ BothFinished
    /\ teams = <<"A", "B">>
    /\ parked.teams = <<"A", "B">>
    /\ n_runs = 1
    /\ parked.n_runs = 1
    /\ stub = "mixed"
    /\ pc = "returned"
    /\ fixture.outcome = "draw"
    /\ summary["B"].wins = 1
    /\ parked.result.simulation_id = 1
    /\ tid = 1

\* The calls that returned, as locals records.
Returned ==
    {l \in {Locals} \cup (IF parked = <<>> THEN {} ELSE {parked}) :
        l.pc = "returned"}

\* C18: every successful call has persisted exactly one SimulationRun with
\* the de-duplicated team list, n_runs and the summary, and get_simulation
\* with the returned id gives the per-team counts and probabilities of the
\* original response, whatever else was stored since.
C18_PersistedOnceAndFetchable ==
    /\ Len(db) = Cardinality({l.result.simulation_id : l \in Returned})
    /\ Len(db) = (IF pc = "returned" THEN 1 ELSE 0)
                 + (IF parked # <<>> /\ parked.pc = "returned" THEN 1 ELSE 0)
    /\ \A l \in Returned :
        LET id == l.result.simulation_id
            rows == {k \in 1..Len(db) : db[k].id = id}
        IN  /\ Cardinality(rows) = 1
            /\ \A k \in rows :
                /\ db[k].teams = Dedup(l.teams)
                /\ db[k].n_runs = l.n_runs
                /\ db[k].results = Items(l.unique_teams, l.summary)
            /\ GetSimulation(db, id) =
                [simulation_id |-> id,
                 results |-> TeamProbs(Items(l.unique_teams, l.summary))]

C18_Witness ==
    /\ BothFinished
    /\ Len(db) = 2
    /\ result.simulation_id = 2
    /\ parked.result.simulation_id = 1
    /\ teams = <<"A", "A">>
    /\ parked.teams = <<"A", "B">>
    /\ n_runs = 1
    /\ parked.n_runs = 1
    /\ db[2].teams = <<"A">>
    /\ parked.summary["B"].wins = 1
    /\ GetSimulation(db, 1).results # GetSimulation(db, 2).results

\* C25: set_active_model with an id that no ModelRun has raises ValueError
\* and changes nothing: the table is as before (the ACTIVE run is still
\* ACTIVE) and the cache is not cleared.
C25_UnknownIdChangesNothing ==
    [][(/\ adminOps' = adminOps + 1
        /\ lastAdmin'.op = "activate"
        /\ lastAdmin'.id \notin 1..Len(model_runs)) =>
            /\ ~lastAdmin'.ok
            /\ model_runs' = model_runs
            /\ cache' = cache]_vars

C25_Witness ==
    /\ lastAdmin = [op |-> "activate", id |-> 2, ok |-> FALSE]
    /\ model_runs = <<"ACTIVE">>
    /\ cache = [artifact |-> 1, run_id |-> 1]
    /\ history # <<>>

\* A bracket simulate_tournament is meant to run: 2, 4, 8, ... teams.
ValidBracket == Len(unique_teams) >= 2 /\ PowerOfTwo(Len(unique_teams))

\* wins <= finals, and finals <= semis when the bracket has a round of 4.
Nested(tally, size) ==
    \A t \in DOMAIN tally :
        /\ tally[t].wins <= tally[t].finals
        /\ size >= 4 => tally[t].finals <= tally[t].semis

\* C23: in a valid bracket the champion of each run was marked finalist and
\* every finalist semifinalist (brackets of 4 or more), so every team of a
\* summary has wins <= finals and, for 4 or more teams, finals <= semis
\* <= n_runs.
C23_CountsNested ==
    ValidBracket =>
        /\ (pc = "loop" /\ runsDone > 0) => Nested(stats, Len(unique_teams))
        /\ pc = "loop" => Nested(aggregate, Len(unique_teams))
        /\ Finished =>
            /\ Nested(summary, Len(unique_teams))
            /\ (Len(unique_teams) >= 4 /\ n_runs >= 1) =>
                    \A t \in DOMAIN summary : summary[t].semis <= n_runs

C23_Witness ==
    /\ pc = "returned"
    /\ Len(unique_teams) = 4
    /\ n_runs = 2
    /\ \E t, u \in DOMAIN summary :
        /\ summary[t].wins = 1
        /\ summary[t].finals = 2
        /\ summary[t].semis = 2
        /\ summary[u].wins = 0
        /\ summary[u].finals = 1

\* C21: a request creates one generator, seeded once and never replaced;
\* the bracket engine runs n_runs times one after another; draws advance the
\* position on the one stream and fall inside a run, so every draw of a run
\* precedes every draw of the next.
C21_OneStreamSequentialRuns ==
    [][/\ rng # NoRng =>
            /\ rng'.seed = rng.seed
            /\ rng'.pos >= rng.pos
       /\ (rng = NoRng /\ rng' # NoRng) =>
            /\ pc = "load"
            /\ rng' = [seed |-> Seed, pos |-> 0]
       /\ rng' # rng =>
            /\ runsDone' = runsDone
            /\ rng'.pos = Len(stream'[Seed])
            /\ SubSeq(stream'[Seed], 1, Len(stream[Seed])) = stream[Seed]
       /\ runsDone' # runsDone =>
            /\ runsDone' = runsDone + 1
            /\ runsDone < n_runs
            /\ pc = "round"
            /\ pc' = "loop"
            /\ rng' = rng
       /\ (pc = "loop" /\ pc' = "round") => runsDone < n_runs
       /\ pc' = "persist" =>
            runsDone' = (IF n_runs > 0 THEN n_runs ELSE 0)]_vars

C21_Witness ==
    /\ pc = "returned"
    /\ n_runs = 2
    /\ runsDone = 2
    /\ Len(unique_teams) = 4
    /\ rng.seed = Seed
    /\ rng.pos = Len(stream[Seed])
    /\ rng.pos >= 12

\* C22: each run shuffles the live team list in place, so when a run has
\* shuffled, the list the next run will start from is the shuffled order.
C22_ShuffledInPlace ==
    (pc = "round" /\ Len(current_round) = Len(unique_teams)) =>
        unique_teams = current_round

\* The values of the n draws recorded after position pos of a stream log.
DrawsAt(log, pos, n) == [d \in 1..n |-> log[pos + d].val]

\* C22 as amended: each run shuffles a copy of the team list; the list
\* handed over by the aggregator is never reordered, so every run starts its
\* shuffle from the de-duplicated input order.
C22_ShufflesACopy ==
    [][/\ unique_teams # <<>> =>
            /\ unique_teams' = unique_teams
            /\ unique_teams = Dedup(teams)
       /\ (pc = "loop" /\ pc' = "round") =>
            LET n == Len(unique_teams)
            IN  /\ rng'.pos = rng.pos + n - 1
                /\ current_round' =
                    FisherYates(unique_teams, n - 1,
                                DrawsAt(stream'[Seed], rng.pos, n - 1))]_vars

\* The second run has shuffled; the first run had left another order.
C22_Witness ==
    /\ pc = "round"
    /\ runsDone = 1
    /\ unique_teams = <<"A", "B", "C", "D">>
    /\ Len(current_round) = 4
    /\ current_round # unique_teams
    /\ FisherYates(unique_teams, 3, DrawsAt(stream[Seed], 0, 3)) # unique_teams
    /\ FisherYates(unique_teams, 3, DrawsAt(stream[Seed], 0, 3)) # current_round
    /\ current_round =
        FisherYates(unique_teams, 3, DrawsAt(stream[Seed], rng.pos - 3, 3))

\* C24: every match of a request is resolved with the artifact that
\* load_active_model returned at the start of the request, also when
\* set_active_model or run_training completes during the request.
C24_OneArtifactPerRequest ==
    \A a \in used : a = artifact

====
